---- MODULE Spec2Model ----
(* Model of the simulated patient monitor: the vitals_stream generator of   *)
(* generator.py and the Streamlit script app.py that pulls one bundle per   *)
(* script run and applies the ICP-crisis override.                          *)
(*                                                                          *)
(* Units: wall-clock time and elapsed time are in milliseconds; scalar      *)
(* vitals and waveform samples are in thousandths of their unit.            *)
EXTENDS Integers, Sequences, FiniteSets

VARIABLES
    now,          \* wall clock read by time.time(), ms
    gen,          \* st.session_state.gen: the generator object, or NoGen
    running,      \* st.session_state.running: None, True or False
    icp_active,   \* st.session_state.icp_active: None, True or False
    icp_timer,    \* st.session_state.icp_timer: NoTime or a time.time() value
    np_random,    \* state of numpy's global random source (np.random.normal)
    start_btn,    \* value of the Start / Restart button in the latest run
    icp_btn,      \* value of the ICP Crisis button in the latest run
    gen_row,      \* the dict yielded by next(gen) in the latest run, or NoRow
    row,          \* the same dict after the override of the latest run, or NoRow
    overridden,   \* keys of row assigned by the override in the latest run
    crisis_age,   \* time.time() - icp_timer as evaluated in the latest run, or NoTime
    pull_result,  \* outcome of next(gen) in the latest run
    uncaught,     \* the exception that ended the latest run, or "none"
    pulls,        \* number of next() calls made on the current generator
    trigger_tick, \* elapsed_s of the bundle of the run of the latest trigger, or NoTime
    clicks        \* number of runs with a button pressed so far

vars == << now, gen, running, icp_active, icp_timer, np_random, start_btn,
           icp_btn, gen_row, row, overridden, crisis_age, pull_result,
           uncaught, pulls, trigger_tick, clicks >>

\* Python's None, True and False where a variable holds any of the three
None == "None"
True == "True"
False == "False"

\* None where a variable otherwise holds a time or a time difference
NoTime == -1

\* None where a variable otherwise holds a generator object
NoGen == [duration |-> 0, fs |-> 0, i |-> 0, rng |-> 0, pc |-> "None"]

\* None where a variable otherwise holds a yielded dict
NoRow ==
    [ elapsed_s |-> -1, HR |-> 0, SBP |-> 0, DBP |-> 0, RR |-> 0, SpO2 |-> 0,
      ICP |-> 0, ECG |-> << >>, PLETH |-> << >>, RESP |-> << >>, ICP_WAVE |-> << >> ]

-----------------------------------------------------------------------------
(* Bounds of the model *)

MaxTime == 6000           \* no button is pressed during a stream and no direct pull starts after this time
MaxClicks == 2            \* runs with a button pressed that are explored
MaxHalfMinutes == 2       \* slider positions explored: 0.5 .. MaxHalfMinutes/2 minutes
MaxDuration == 6          \* durations explored for a directly created stream
MaxTicks == 12            \* tick indices explored for a directly created stream
MaxSeed == 1              \* entropy values explored when a random source is seeded

\* largest tick index a stream can reach before MaxTime (at most 4 ticks a second)
MaxIndex == MaxTime \div 250 + 60 * MaxHalfMinutes + 2

-----------------------------------------------------------------------------
(* generator.py: constants and templates *)

ECG_FS == 250
PLETH_FS == 100
RESP_FS == 25
ICP_FS == 50
BUFFER_SEC == 5

\* The ECG, PLETH and RESP templates hold noise and sinusoid samples whose
\* values no claim depends on: a sample is represented by its template index.
ecg_template == [k \in 1..(ECG_FS * BUFFER_SEC) |-> k]
pleth_template == [k \in 1..(PLETH_FS * BUFFER_SEC) |-> k]
resp_template == [k \in 1..(RESP_FS * BUFFER_SEC) |-> k]

\* p1 + p2 + p3 sampled at t_icp = k/50, k = 0..49, in thousandths
icp_pulse ==
    << 0, 0, 0, 1, 23, 220, 1265, 4415, 9346, 12000,
       9346, 4415, 1265, 220, 26, 17, 73, 278, 843, 2051,
       3995, 6230, 7781, 7781, 6230, 3995, 2051, 843, 278, 75,
       28, 76, 310, 948, 2109, 3409, 4000, 3409, 2109, 948,
       309, 73, 13, 2, 0, 0, 0, 0, 0, 0 >>

\* np.tile(a, reps)
tile(a, reps) ==
    LET n == Len(a)
    IN  [k \in 1..(n * reps) |-> a[((k - 1) % n) + 1]]

icp_template == tile(icp_pulse, BUFFER_SEC)

roll_reversed(a, shift) ==
    LET n == Len(a)
    IN  [k \in 1..n |-> a[((k - 1 + shift) % n) + 1]]

\* np.roll(a, shift): element k of the result is element k - shift of a, circularly
roll(a, shift) ==
    LET n == Len(a)
    IN  [k \in 1..n |-> a[((k - 1 - shift) % n) + 1]]

\* a[:n]
take(a, n) == SubSeq(a, 1, IF n < Len(a) THEN n ELSE Len(a))

\* a[lo:hi] with Python's clamping of the slice ends
slice(a, lo, hi) ==
    SubSeq(a, (IF lo < Len(a) THEN lo ELSE Len(a)) + 1,
              IF hi < Len(a) THEN hi ELSE Len(a))

wave_1s_noroll(template, fs, i) == slice(template, i * fs, i * fs + fs)

\* np.roll(template, -shift)[:fs] with shift = (i * fs) % len(template)
wave_1s(template, fs, i) == take(roll(template, -((i * fs) % Len(template))), fs)

-----------------------------------------------------------------------------
(* the random sources *)

\* Standard normal deviates, in hundredths of a standard deviation, that a
\* random source returns in turn; a source is its position in this cycle.
ZTable == << -400, -175, -50, 0, 25, 150, 400 >>

RngPeriod == Len(ZTable)

Seeds == 0..MaxSeed

\* normal(0, sigma) at position s of the source; sigma in thousandths
normal(s, sigma) == (sigma * ZTable[(s % RngPeriod) + 1]) \div 100

advance(s, n) == (s + n) % RngPeriod

clip_nohigh(v, lo, hi) == IF v < lo THEN lo ELSE v

\* np.clip(v, lo, hi)
clip(v, lo, hi) == IF v < lo THEN lo ELSE IF v > hi THEN hi ELSE v

\* round(v, 1): to the nearest tenth, ties to the even tenth
round1(v) ==
    LET q == v \div 100
        r == v % 100
    IN  100 * (IF r > 50 \/ (r = 50 /\ q % 2 = 1) THEN q + 1 ELSE q)

-----------------------------------------------------------------------------
(* generator.py: vitals_stream *)

\* the tick rates a stream is created with directly; the app always uses 1
FS_CHOICES == {-1, 0, 1, 2, 4}

\* step = 1.0 / fs, in ms, for fs # 0
step_of(fs) == IF fs > 0 THEN 1000 \div fs ELSE -(1000 \div (-fs))

\* Python truth value of the duration argument; 0 also stands for None,
\* which the body treats alike
truthy(duration) == duration # 0

last_tick_late(t, step, duration) == truthy(duration) /\ t >= duration * 1000

\* the test that ends the stream after a yield: duration and t + step >= duration
last_tick(t, step, duration) == truthy(duration) /\ t + step >= duration * 1000

\* the generator object returned by vitals_stream(duration, fs): no line of
\* the body has run yet
vitals_stream(duration, fs) ==
    [duration |-> duration, fs |-> fs, i |-> 0, rng |-> 0, pc |-> "start"]

\* the four waveform slices of tick i
waves(i) ==
    [ ECG       |-> wave_1s(ecg_template, ECG_FS, i),
      PLETH     |-> wave_1s(pleth_template, PLETH_FS, i),
      RESP      |-> wave_1s(resp_template, RESP_FS, i),
      ICP_WAVE  |-> wave_1s(icp_template, ICP_FS, i) ]

\* waves(i) tabulated over the tick indices the model reaches
wave_table == [i \in 0..MaxIndex |-> waves(i)]

\* the dict yielded at tick i, the random source being at position s
bundle(i, fs, s) ==
    [ elapsed_s |-> round1(i * step_of(fs)),
      HR        |-> round1(clip(92000 + normal(s, 1500), 89000, 95000)),
      SBP       |-> round1(clip(127000 + normal(s + 1, 4000), 120000, 135000)),
      DBP       |-> round1(clip(85000 + normal(s + 2, 3000), 80000, 89000)),
      RR        |-> round1(clip(16000 + normal(s + 3, 600), 14000, 18000)),
      SpO2      |-> round1(clip(97000 + normal(s + 4, 300), 96000, 98000)),
      ICP       |-> round1(clip(8500 + normal(s + 5, 2000), 5000, 12000)),
      ECG       |-> wave_table[i].ECG,
      PLETH     |-> wave_table[i].PLETH,
      RESP      |-> wave_table[i].RESP,
      ICP_WAVE  |-> wave_table[i].ICP_WAVE ]

next_index_skip(i) == i + 2

\* i += 1
next_index(i) == i + 1

\* next(g): runs the generator body up to its next yield or to its end.
\* seed is the entropy default_rng() reads when the body starts.
\* slept is the time spent in time.sleep(step) inside the call.
\* A body that raises leaves the generator finished.
gen_next(g, seed) ==
    IF g.pc = "start" /\ g.fs = 0
    THEN \* step = 1.0 / fs divides by zero
         [ gen    |-> [g EXCEPT !.pc = "done"],
           result |-> "ZeroDivisionError",
           row    |-> NoRow,
           slept  |-> 0 ]
    ELSE IF g.pc = "start"
    THEN [ gen    |-> [g EXCEPT !.i = 0, !.rng = advance(seed, 6), !.pc = "yielded"],
           result |-> "bundle",
           row    |-> bundle(0, g.fs, seed),
           slept  |-> 0 ]
    ELSE IF g.pc = "yielded" /\ ~last_tick(g.i * step_of(g.fs), step_of(g.fs), g.duration)
    THEN IF step_of(g.fs) < 0
         THEN \* time.sleep(step) refuses a negative length, after i += 1
              [ gen    |-> [g EXCEPT !.i = next_index(g.i), !.pc = "done"],
                result |-> "ValueError",
                row    |-> NoRow,
                slept  |-> 0 ]
         ELSE [ gen    |-> [g EXCEPT !.i = next_index(g.i), !.rng = advance(g.rng, 6)],
                result |-> "bundle",
                row    |-> bundle(next_index(g.i), g.fs, g.rng),
                slept  |-> step_of(g.fs) ]
    ELSE [ gen    |-> [g EXCEPT !.pc = "done"],
           result |-> "StopIteration",
           row    |-> NoRow,
           slept  |-> 0 ]

-----------------------------------------------------------------------------
(* the generator used alone: a stream is created and pulled directly *)

Init ==
    /\ now = 0
    /\ gen = NoGen
    /\ running = None
    /\ icp_active = None
    /\ icp_timer = NoTime
    /\ np_random \in Seeds
    /\ start_btn = FALSE
    /\ icp_btn = FALSE
    /\ gen_row = NoRow
    /\ row = NoRow
    /\ overridden = {}
    /\ crisis_age = NoTime
    /\ pull_result = "none"
    /\ uncaught = "none"
    /\ pulls = 0
    /\ trigger_tick = NoTime
    /\ clicks = 0

\* g = vitals_stream(duration, fs)
create_stream(duration, fs) ==
    /\ gen' = vitals_stream(duration, fs)
    /\ pulls' = 0
    /\ gen_row' = NoRow
    /\ row' = NoRow
    /\ pull_result' = "none"
    /\ UNCHANGED << now, running, icp_active, icp_timer, np_random, start_btn,
                    icp_btn, overridden, crisis_age, uncaught, trigger_tick,
                    clicks >>

\* next(g)
pull(seed) ==
    /\ gen # NoGen
    /\ pulls < MaxTicks
    /\ now <= MaxTime
    /\ \E r \in {gen_next(gen, seed)} :
        /\ gen' = r.gen
        /\ pull_result' = r.result
        /\ gen_row' = r.row
        /\ row' = r.row
        /\ now' = now + r.slept
    /\ pulls' = pulls + 1
    /\ UNCHANGED << running, icp_active, icp_timer, np_random, start_btn,
                    icp_btn, overridden, crisis_age, uncaught, trigger_tick,
                    clicks >>

NextGen ==
    \/ \E duration \in 0..MaxDuration, fs \in FS_CHOICES : create_stream(duration, fs)
    \/ \E seed \in Seeds : pull(seed)

SpecGen == Init /\ [][NextGen]_vars

\* the generator at its default tick rate and under one seed: the waveform
\* slices depend on the tick index only
NextWave ==
    \/ \E duration \in 0..MaxDuration : create_stream(duration, 1)
    \/ pull(0)

SpecWave == Init /\ [][NextWave]_vars

-----------------------------------------------------------------------------
(* app.py *)

\* the crisis window of the override, ms
CRISIS_WINDOW == 60000

\* time.sleep(1) before st.rerun(), ms
RERUN_SLEEP == 1000

duration_of_int_first(h) == (h \div 2) * 60

\* int(duration_min * 60) for the slider at h half minutes
duration_of(h) == (h * 60) \div 2

\* the time by which every stream of the explored runs has ended
Horizon == MaxTime + MaxClicks * (2 * 1000 * duration_of(MaxHalfMinutes) + 2 * RERUN_SLEEP)

active_after_start_kept(sb, active) == active

\* icp_active after the start / restart block
active_after_start(sb, active) == IF sb THEN False ELSE active

\* icp_timer after the start / restart block
timer_after_start(sb, timer) == IF sb THEN NoTime ELSE timer

trigger_applies_always(ib, run) == ib

\* the condition of the trigger block: icp_btn and st.session_state.running
trigger_applies(ib, run) == ib /\ run = True

running_after_pull_kept(result) == True

\* st.session_state.running after the try / except around next(), which
\* catches StopIteration and ValueError
running_after_pull(result) ==
    IF result \in {"StopIteration", "ValueError"} THEN False ELSE True

timer_after_trigger_unset(trig, t, timer) == timer

\* icp_timer after the trigger block, t being time.time()
timer_after_trigger(trig, t, timer) == IF trig THEN t ELSE timer


in_window_30(age) == age <= 30000

\* time.time() - icp_timer <= 60
in_window(age) == age <= CRISIS_WINDOW

crisis_draws_no_spo2(s) ==
    [ HR   |-> 34000 + normal(s, 500),
      SBP  |-> 190000 + normal(s + 1, 3000),
      DBP  |-> 105000 + normal(s + 2, 2000),
      ICP  |-> 45000 + normal(s + 3, 1000) ]

crisis_draws_with_rr(s) ==
    [ HR   |-> 34000 + normal(s, 500),
      SBP  |-> 190000 + normal(s + 1, 3000),
      DBP  |-> 105000 + normal(s + 2, 2000),
      ICP  |-> 45000 + normal(s + 3, 1000),
      SpO2 |-> 98000 + normal(s + 4, 200),
      RR   |-> 24000 + normal(s + 5, 1000) ]

\* the five assignments of the override, np.random being at position s
crisis_draws(s) ==
    [ HR   |-> 34000 + normal(s, 500),
      SBP  |-> 190000 + normal(s + 1, 3000),
      DBP  |-> 105000 + normal(s + 2, 2000),
      ICP  |-> 45000 + normal(s + 3, 1000),
      SpO2 |-> 98000 + normal(s + 4, 200) ]

\* row[k] = v for every k, v of d
assign(r, d) == [k \in DOMAIN r |-> IF k \in DOMAIN d THEN d[k] ELSE r[k]]

\* One run of the script: sb and ib are the two buttons, h the slider
\* position, seed the entropy available to a generator whose body starts.
Rerun(sb, ib, h, seed) ==
    LET \* start / restart
        run1 == IF sb THEN True ELSE running
        gen1 == IF sb THEN vitals_stream(duration_of(h), 1) ELSE gen
        act1 == active_after_start(sb, icp_active)
        tim1 == timer_after_start(sb, icp_timer)
        \* trigger ICP crisis
        trig == trigger_applies(ib, run1)
        act2 == IF trig THEN True ELSE act1
        tim2 == timer_after_trigger(trig, now, tim1)
        pressed == IF sb \/ ib THEN 1 ELSE 0
    IN  /\ now <= Horizon
        /\ pressed = 1 => (clicks < MaxClicks /\ (now <= MaxTime \/ running # True))
        /\ clicks' = clicks + pressed
        /\ start_btn' = sb
        /\ icp_btn' = ib
        /\ icp_timer' = tim2
        /\ IF run1 # True
           THEN \* nothing is pulled and no rerun is scheduled
                /\ icp_active' = act2
                /\ gen_row' = NoRow
                /\ row' = NoRow
                /\ overridden' = {}
                /\ crisis_age' = NoTime
                /\ pull_result' = "none"
                /\ uncaught' = "none"
                /\ trigger_tick' = IF trig THEN NoTime ELSE trigger_tick
                /\ UNCHANGED << now, gen, running, np_random, pulls >>
           ELSE \E r \in {gen_next(gen1, seed)} :
                LET t == now + r.slept      \* time.time() after next() returns
                IN
                /\ gen' = r.gen
                /\ pulls' = (IF sb THEN 0 ELSE pulls) + 1
                /\ pull_result' = r.result
                /\ gen_row' = r.row
                /\ running' = running_after_pull(r.result)
                /\ IF r.result # "bundle"
                   THEN \* row = None: the override is skipped
                        /\ row' = NoRow
                        /\ icp_active' = act2
                        /\ overridden' = {}
                        /\ crisis_age' = NoTime
                        /\ uncaught' = IF r.result = "ZeroDivisionError"
                                       THEN r.result ELSE "none"
                        /\ trigger_tick' = IF sb \/ trig THEN NoTime ELSE trigger_tick
                        /\ now' = t + (IF running' = True /\ r.result = "StopIteration"
                                        THEN RERUN_SLEEP ELSE 0)
                        /\ UNCHANGED np_random
                   ELSE /\ trigger_tick' = IF trig THEN r.row.elapsed_s
                                           ELSE IF sb THEN NoTime ELSE trigger_tick
                        /\ IF act2 # True
                           THEN /\ row' = r.row
                                /\ icp_active' = act2
                                /\ overridden' = {}
                                /\ crisis_age' = NoTime
                                /\ uncaught' = "none"
                                /\ now' = t + RERUN_SLEEP
                                /\ UNCHANGED np_random
                           ELSE IF tim2 = NoTime
                           THEN \* float - None: the run ends with TypeError
                                /\ row' = r.row
                                /\ icp_active' = act2
                                /\ overridden' = {}
                                /\ crisis_age' = NoTime
                                /\ uncaught' = "TypeError"
                                /\ now' = t
                                /\ UNCHANGED np_random
                           ELSE /\ crisis_age' = t - tim2
                                /\ uncaught' = "none"
                                /\ now' = t + RERUN_SLEEP
                                /\ IF in_window(t - tim2)
                                   THEN /\ row' = assign(r.row, crisis_draws(np_random))
                                        /\ overridden' = DOMAIN crisis_draws(np_random)
                                        /\ np_random' = advance(np_random, 5)
                                        /\ icp_active' = True
                                   ELSE /\ row' = r.row
                                        /\ overridden' = {}
                                        /\ icp_active' = False
                                        /\ UNCHANGED np_random

\* The slider and the entropy are read only by a run with Start / Restart
\* pressed: it creates the generator and makes its first pull.
Next ==
    \/ \E ib \in BOOLEAN, h \in 1..MaxHalfMinutes, seed \in Seeds :
            Rerun(TRUE, ib, h, seed)
    \/ \E ib \in BOOLEAN : Rerun(FALSE, ib, 1, 0)

Spec == Init /\ [][Next]_vars

\* the last block of the script: while running, the script sleeps one second
\* and calls st.rerun(), so a run with no button pressed always follows
AutoRerun == running = True /\ Rerun(FALSE, FALSE, 1, 0)

SpecLive == Spec /\ WF_vars(AutoRerun)

-----------------------------------------------------------------------------
(* Properties *)

FIVE_KEYS == {"HR", "SBP", "DBP", "ICP", "SpO2"}

\* a bundle was returned in a run that found the crisis active and evaluated
\* time.time() - icp_timer to at most 60 s
InCrisisWindow == row # NoRow /\ crisis_age # NoTime /\ crisis_age <= 60000

\* C1: for a stream of tick rate 1 and positive duration D, pull k of the
\* first D pulls returns the bundle of elapsed_s = k - 1, and every pull
\* after the D-th signals end of stream and returns no bundle.
C1_FirstDPullsThenEnd ==
    (gen # NoGen /\ gen.fs = 1 /\ gen.duration > 0 /\ pulls >= 1) =>
        /\ pulls <= gen.duration =>
              (pull_result = "bundle" /\ row.elapsed_s = (pulls - 1) * 1000)
        /\ pulls > gen.duration =>
              (pull_result = "StopIteration" /\ row = NoRow)

C1_Witness ==
    /\ gen.fs = 1 /\ gen.duration = 5
    /\ pulls = 6 /\ pull_result = "StopIteration"

\* C2: with tick rate 1, when the crisis was triggered in the run that
\* returned the bundle of elapsed_s = 2.0, every bundle of elapsed_s in
\* [2.0, 61.9] carries the crisis scalars and the bundle of elapsed_s = 62.0
\* carries the baseline scalars.
C2_WindowCoversSixtyBundles ==
    (row # NoRow /\ gen.fs = 1 /\ trigger_tick = 2000) =>
        /\ (row.elapsed_s >= 2000 /\ row.elapsed_s <= 61900) => overridden = FIVE_KEYS
        /\ row.elapsed_s = 62000 => overridden = {}

\* C3: every returned bundle has 250 ECG, 100 PLETH, 25 RESP and 50 ICP_WAVE
\* samples, also at the ticks where the rolling offset is back at 0.
C3_WaveformLengths ==
    row # NoRow =>
        /\ Len(row.ECG) = 250
        /\ Len(row.PLETH) = 100
        /\ Len(row.RESP) = 25
        /\ Len(row.ICP_WAVE) = 50

C3_Witness ==
    /\ row # NoRow /\ gen.i = BUFFER_SEC
    /\ row.ECG[1] = 1 /\ row.ECG[250] = 250

\* C4: every bundle returned without the crisis override has each scalar in
\* its baseline range: HR 89-95, SBP 120-135, DBP 80-89, RR 14-18,
\* SpO2 96-98, ICP 5-12.
C4_BaselineRanges ==
    (row # NoRow /\ overridden = {}) =>
        /\ row.HR >= 89000 /\ row.HR <= 95000
        /\ row.SBP >= 120000 /\ row.SBP <= 135000
        /\ row.DBP >= 80000 /\ row.DBP <= 89000
        /\ row.RR >= 14000 /\ row.RR <= 18000
        /\ row.SpO2 >= 96000 /\ row.SpO2 <= 98000
        /\ row.ICP >= 5000 /\ row.ICP <= 12000

\* a draw four standard deviations above the centre is clamped to the top
C4_Witness ==
    row # NoRow /\ overridden = {} /\ row.HR = 95000 /\ row.SBP = 120000

P1_CENTRE == 180
P2_CENTRE == 450
P3_CENTRE == 720

Dist(a, b) == IF a < b THEN b - a ELSE a - b

\* the samples of a one-second ICP slice that are nearer to the centre of P2
\* than to the centres of P1 and P3
P2_POSITIONS ==
    { k \in 1..ICP_FS :
        LET t == ((k - 1) * 1000) \div ICP_FS
        IN  /\ Dist(t, P2_CENTRE) < Dist(t, P1_CENTRE)
            /\ Dist(t, P2_CENTRE) < Dist(t, P3_CENTRE) }

\* the positions of the maximum sample of w
peak_positions(w) == { k \in DOMAIN w : \A j \in DOMAIN w : w[j] <= w[k] }

\* C6: every bundle returned inside the crisis window has the maximum of its
\* ICP waveform slice in the P2 position.
C6_PeakAtP2 ==
    InCrisisWindow => peak_positions(row.ICP_WAVE) \subseteq P2_POSITIONS

\* C7: a run with the ICP Crisis button pressed while the stream is not
\* running leaves icp_active and icp_timer as they were and raises nothing.
C7_TriggerNotRunningIsNoOp ==
    [][ (icp_btn' /\ ~start_btn' /\ running # True) =>
            /\ icp_active' = icp_active
            /\ icp_timer' = icp_timer
            /\ running' = running
            /\ uncaught' = "none" ]_vars

C7_Witness ==
    /\ icp_btn /\ ~start_btn
    /\ running = False /\ gen.pc = "done"
    /\ icp_active = False /\ pull_result = "none"

\* the crisis is active when the run reaches the override with a bundle
ActiveAtPull ==
    /\ pull_result' = "bundle"
    /\ \/ icp_active = True /\ ~start_btn'
       \/ icp_btn' /\ (running = True \/ start_btn')

\* C8: every pull made while the crisis is active evaluates the time since
\* activation; above 60 s the crisis becomes inactive and the bundle is the
\* generator's, at most 60 s the crisis stays active; an inactive crisis
\* stays inactive until a run with a trigger request.
C8_ExpiryAfterSixtySeconds ==
    [][ /\ ActiveAtPull => crisis_age' # NoTime
        /\ (crisis_age' # NoTime /\ crisis_age' > 60000) =>
               (icp_active' = False /\ overridden' = {} /\ row' = gen_row')
        /\ (crisis_age' # NoTime /\ crisis_age' <= 60000) => icp_active' = True
        /\ (icp_active = False /\ ~icp_btn') => icp_active' = False ]_vars

C8_Witness ==
    /\ row # NoRow /\ crisis_age # NoTime /\ crisis_age > 60000
    /\ icp_active = False /\ row = gen_row

\* C9: a run with Start / Restart pressed and no trigger ends with the crisis
\* inactive, no activation time and a baseline bundle; with a trigger in the
\* same run the activation time is that run's; a crisis that is not active
\* stays so, with baseline bundles, until a run with a trigger request.
C9_RestartClearsCrisis ==
    [][ /\ (start_btn' /\ ~icp_btn') =>
               /\ icp_active' = False /\ icp_timer' = NoTime
               /\ crisis_age' = NoTime /\ overridden' = {}
        /\ (start_btn' /\ icp_btn') => icp_timer' = now
        /\ (icp_active # True /\ ~icp_btn') =>
               (icp_active' # True /\ overridden' = {}) ]_vars

\* a restart: the clock has advanced, so a stream was started before
C9_Witness ==
    /\ start_btn /\ ~icp_btn /\ now > RERUN_SLEEP /\ pulls = 1
    /\ icp_active = False /\ icp_timer = NoTime
    /\ row # NoRow /\ overridden = {}

\* C10: once the generator has ended, a pull fails with StopIteration, returns
\* no bundle and leaves the generator as it is; the app has then marked the
\* stream not running and a run without Start / Restart pulls nothing.
C10_ExhaustedStream ==
    /\ [](gen.pc = "done" =>
            /\ running = False
            /\ \A s \in Seeds :
                  gen_next(gen, s) = [ gen |-> gen, result |-> "StopIteration",
                                       row |-> NoRow, slept |-> 0 ])
    /\ [][ (gen.pc = "done" /\ ~start_btn') =>
               (pull_result' = "none" /\ gen' = gen /\ pulls' = pulls) ]_vars

C10_Witness ==
    /\ gen.pc = "done" /\ running = False
    /\ pull_result = "none" /\ pulls = gen.duration + 1

SCALAR_KEYS == {"HR", "SBP", "DBP", "RR", "SpO2", "ICP"}

\* C11: a stream and the stream obtained by a restart under the same
\* configuration return the same scalar vitals when one tick is pulled from each.
C11_RestartReproducesScalars ==
    [][ ( /\ start_btn /\ ~icp_btn /\ pulls = 1 /\ row # NoRow
          /\ start_btn' /\ ~icp_btn' /\ row' # NoRow
          /\ gen'.duration = gen.duration /\ gen'.fs = gen.fs ) =>
            \A k \in SCALAR_KEYS : row'[k] = row[k] ]_vars

\* C12: creating a stream with a tick rate of zero or less yields no stream,
\* and no bundle is ever returned from such a stream.
C12_NonPositiveRateRejected ==
    /\ gen.pc = "start" => gen.fs > 0
    /\ (gen # NoGen /\ gen.fs <= 0) => (pull_result # "bundle" /\ row = NoRow)

\* C13: a pull leaves the wall clock as it is.
C13_PullDoesNotSleep ==
    [][ pulls' = pulls + 1 => now' = now ]_vars

\* C14: a run with the ICP Crisis button pressed while the crisis is active
\* leaves the recorded activation time unchanged.
C14_RetriggerKeepsActivationTime ==
    [][ (icp_btn' /\ ~start_btn' /\ running = True /\ icp_active = True) =>
            icp_timer' = icp_timer ]_vars

UNTOUCHED_KEYS == {"RR", "elapsed_s", "ECG", "PLETH", "RESP"}

\* C15: in every bundle the override wrote to, RR, elapsed_s and the ECG,
\* PLETH and RESP slices are the values the generator yielded for that tick.
C15_OverrideLeavesRest ==
    (row # NoRow /\ overridden # {}) =>
        \A k \in UNTOUCHED_KEYS : k \notin overridden /\ row[k] = gen_row[k]

C15_Witness ==
    /\ row # NoRow /\ overridden = FIVE_KEYS /\ gen.i >= 1
    /\ row.HR # gen_row.HR /\ row.RR = gen_row.RR /\ row.ECG = gen_row.ECG

\* sample k (from 1) of the reference circular read of a template of length
\* L at tick i and rate r: template[((i * r) mod L + k - 1) mod L]
circular_sample(template, r, i, k) ==
    template[((((i * r) % Len(template)) + (k - 1)) % Len(template)) + 1]

\* C16: each slice of a returned bundle is the circular read of its
\* template at offset (i * rate) mod length, and it equals the slice of the
\* same channel BUFFER_SEC ticks later.
C16_CircularRead ==
    row # NoRow =>
        /\ \A k \in 1..ECG_FS :
              row.ECG[k] = circular_sample(ecg_template, ECG_FS, gen.i, k)
        /\ \A k \in 1..PLETH_FS :
              row.PLETH[k] = circular_sample(pleth_template, PLETH_FS, gen.i, k)
        /\ \A k \in 1..RESP_FS :
              row.RESP[k] = circular_sample(resp_template, RESP_FS, gen.i, k)
        /\ \A k \in 1..ICP_FS :
              row.ICP_WAVE[k] = circular_sample(icp_template, ICP_FS, gen.i, k)
        /\ row.ECG = wave_table[gen.i + BUFFER_SEC].ECG
        /\ row.PLETH = wave_table[gen.i + BUFFER_SEC].PLETH
        /\ row.RESP = wave_table[gen.i + BUFFER_SEC].RESP
        /\ row.ICP_WAVE = wave_table[gen.i + BUFFER_SEC].ICP_WAVE

\* tick 6: the offset has wrapped once and the slice starts at sample 251
C16_Witness ==
    /\ row # NoRow /\ gen.i = BUFFER_SEC + 1
    /\ row.ECG[1] = ECG_FS + 1 /\ row.RESP[RESP_FS] = 2 * RESP_FS

\* C17 as stated: for a positive tick rate the k-th bundle (k from 0) is the
\* one of tick index k and carries elapsed_s = k / tick rate.
C17_ElapsedIsIndexOverRate ==
    (gen.fs > 0 /\ pull_result = "bundle") =>
        /\ gen.i = pulls - 1
        /\ row.elapsed_s * gen.fs = gen.i * 1000

\* C17 as amended: for a positive tick rate the k-th bundle is the one of
\* tick index k and carries k / tick rate rounded to one decimal; a pull that
\* returns a bundle advances the index by one and never lowers elapsed_s, a
\* pull that signals the end leaves the index alone.
C17_ElapsedIsRoundedIndexOverRate ==
    /\ []( (gen.fs > 0 /\ pull_result = "bundle") =>
              /\ gen.i = pulls - 1
              /\ row.elapsed_s % 100 = 0
              /\ 2 * Dist(row.elapsed_s * gen.fs, gen.i * 1000) <= 100 * gen.fs )
    /\ [][ (gen.fs > 0 /\ pulls' = pulls + 1) =>
              IF pull_result' = "bundle"
              THEN /\ gen'.i = IF pulls = 0 THEN 0 ELSE gen.i + 1
                   /\ row # NoRow => row'.elapsed_s >= row.elapsed_s
              ELSE gen'.i = gen.i ]_vars

\* tick 1 at 4 ticks a second: 0.25 s is returned as 0.2
C17_Witness ==
    /\ gen.fs = 4 /\ pull_result = "bundle"
    /\ gen.i = 1 /\ row.elapsed_s = 200

\* C18: while the crisis flag is set the activation time is set, and no
\* run of the script ends in the TypeError of subtracting a missing time.
C18_ActiveHasTimer ==
    /\ icp_active = True => icp_timer # NoTime
    /\ uncaught # "TypeError"

C18_Witness ==
    /\ icp_active = True /\ icp_timer # NoTime
    /\ crisis_age # NoTime /\ overridden = FIVE_KEYS

\* C19: whenever the simulation is not running the crisis flag is not set.
C19_NotRunningNotActive == running # True => icp_active # True

\* the slider positions of app.py, in seconds: 0.5 to 10.0 minutes
MIN_DURATION == 30
MAX_DURATION == 600

\* C20: every stream the application creates has a duration between 30 and
\* 600 seconds; a running simulation eventually stops running; once stopped
\* it stays stopped until a run in which Start / Restart is pressed.
C20_StreamEnds ==
    /\ [](gen # NoGen => (gen.duration >= MIN_DURATION /\ gen.duration <= MAX_DURATION))
    /\ (running = True) ~> (running = False)
    /\ [][ (running = False /\ ~start_btn') => running' = False ]_vars

C20_Witness ==
    /\ running = False /\ gen # NoGen /\ gen.pc = "done"
    /\ pull_result = "StopIteration" /\ pulls = gen.duration + 1

====
